---- MODULE Spec2Model ----
(***************************************************************************)
(* Model of the tukui mirror pipeline (src/main.go).                       *)
(*                                                                         *)
(* One run of the program is main() -> mirror(): for every addon of the    *)
(* fetched list the local copy of the addon's repository is reset and      *)
(* cloned, its most recent tag is compared with the addon's version, and   *)
(* when they differ the artifact is downloaded, release.json is written,   *)
(* a commit and a tag are made and pushed and a hosted release with two    *)
(* assets is created.  Every step that touches the outside world is one    *)
(* action whose outcome is chosen by the environment.                      *)
(*                                                                         *)
(* Environment.  The remote git repository of a slug is a branch history   *)
(* (sequence of commit ids, each with the release.json it holds) and a map *)
(* from tag names to commit ids; only this program writes to it.           *)
(* The release service keeps, per slug, the                                *)
(* sequence of releases that were created; creating a release stores its   *)
(* tag name, and for a tag the repository lacks the service may create the *)
(* tag.  The local disk keeps the working copies between runs.             *)
(***************************************************************************)
EXTENDS Integers, Sequences, FiniteSets, TLC

\* ------------------------------------------------------------------ bounds
\* Runs made over lists of several addons, runs made one after the other
\* over one addon, and commands whose process does not start.
MaxRuns == 1
MaxSeries == 3
MaxNoStart == 1

\* ------------------------------------------------------------------ inputs
Slugs == {"elvui", "tukui"}
TagNames == {"13.33", "13.34"}
\* Addon.Version is any string of the catalogue, the empty string included.
Versions == TagNames \cup {""}

\* type Addon struct: the fields the pipeline's control flow reads.
Addon == [slug : Slugs, version : Versions]

\* Lists returned by fetch_addon_list: a slug occurs once, and the
\* catalogue keeps its order.
Catalogue == <<"elvui", "tukui">>
CataloguePos(s) == CHOOSE n \in 1..Len(Catalogue) : Catalogue[n] = s

AddonLists ==
  { l \in UNION { [1..n -> Addon] : n \in 0..Len(Catalogue) } :
      \A i, j \in DOMAIN l :
        i < j => CataloguePos(l[i].slug) < CataloguePos(l[j].slug) }

\* The lists of a source that serves one addon.
SeriesLists == { l \in AddonLists : Len(l) = 1 /\ l[1].slug = "elvui" }

\* ------------------------------------------------------------------ paths
\* A file name is the sequence of the parts that Sprintf joins; the last
\* part is the extension filepath.Ext returns.
ZipName(addon) == <<addon.slug, "--", addon.version, ".zip">>
ReleaseJsonName == <<"release", ".json">>

Ext(name) == IF name = <<>> THEN "" ELSE name[Len(name)]

ToLower(ext) ==
  CASE ext = ".ZIP" -> ".zip"
    [] ext = ".JSON" -> ".json"
    [] OTHER -> ext

\* guess_media_type: "" stands for the panic.
guess_media_type(name) ==
  LET ext == ToLower(Ext(name)) IN
  IF ext = ".zip" THEN "application/zip"
  ELSE IF ext = ".json" THEN "application/json"
  ELSE ""

\* ------------------------------------------------------------------ patches
\* A patch (game version) is the sequence of its characters.
Digits == {"0", "1", "2", "3", "4", "5", "6", "7", "8", "9"}

DigitVal(c) ==
  CASE c = "0" -> 0 [] c = "1" -> 1 [] c = "2" -> 2 [] c = "3" -> 3
    [] c = "4" -> 4 [] c = "5" -> 5 [] c = "6" -> 6 [] c = "7" -> 7
    [] c = "8" -> 8 [] c = "9" -> 9

\* Position of the first "." of s; 0 when s has none.
IndexDot(s) ==
  IF \E k \in DOMAIN s : s[k] = "."
    THEN CHOOSE k \in DOMAIN s : s[k] = "." /\ \A j \in 1..(k - 1) : s[j] # "."
    ELSE 0

\* strings.SplitN(s, ".", n) for n > 0: at most n substrings, the last one
\* the unsplit remainder.
RECURSIVE SplitN(_, _)
SplitN(s, n) ==
  IF n = 1 \/ IndexDot(s) = 0 THEN <<s>>
  ELSE <<SubSeq(s, 1, IndexDot(s) - 1)>>
         \o SplitN(SubSeq(s, IndexDot(s) + 1, Len(s)), n - 1)

\* The digits of s without its leading zeros.
RECURSIVE Significant(_)
Significant(s) ==
  IF s # <<>> /\ s[1] = "0" THEN Significant(Tail(s)) ELSE s

RECURSIVE Value(_)
Value(s) ==
  IF s = <<>> THEN 0 ELSE 10 * Value(SubSeq(s, 1, Len(s) - 1)) + DigitVal(s[Len(s)])

\* Decimal digits of the largest int of a 64-bit build (2^63 - 1 has 19):
\* a number with more significant digits is out of the range of int, and a
\* number n of IntDigits - d significant digits or more makes 10^(d+1) * n
\* exceed it.
IntDigits == 19

\* The digits of s after an optional sign.
Unsigned(s) == IF s # <<>> /\ s[1] \in {"+", "-"} THEN Tail(s) ELSE s

\* Number of significant digits of the number s.
Magnitude(s) == Len(Significant(Unsigned(s)))

\* strconv.Atoi: an optional sign and decimal digits; a syntax error for
\* anything else and a range error for a value that int cannot hold.  val
\* is given for numbers of fewer than IntDigits - 3 significant digits.
Atoi(s) ==
  LET digits == Unsigned(s) IN
  IF digits = <<>> \/ \E k \in DOMAIN digits : digits[k] \notin Digits
    THEN [ok |-> FALSE, val |-> 0]
  ELSE IF Magnitude(s) > IntDigits
    THEN [ok |-> FALSE, val |-> 0]
  ELSE [ok |-> TRUE,
        val |-> IF Magnitude(s) > IntDigits - 4 THEN 0
                ELSE IF s[1] = "-" THEN 0 - Value(digits)
                ELSE Value(digits)]

\* A flavour chosen by the first character alone.
patch_to_flavour_first_char(patch) ==
  IF Len(patch) < 2 THEN "panic"
  ELSE CASE patch[1] = "1" -> "classic"
         [] patch[1] = "2" -> "classic-tbc"
         [] patch[1] = "3" -> "classic-wotlk"
         [] OTHER -> "mainline"

\* patch_to_flavour: the table is looked up with patch[:2]; the slice
\* expression panics for a patch shorter than 2 ("panic").
patch_to_flavour(patch) ==
  IF Len(patch) < 2 THEN "panic"
  ELSE CASE SubSeq(patch, 1, 2) = <<"1", ".">> -> "classic"
         [] SubSeq(patch, 1, 2) = <<"2", ".">> -> "classic-tbc"
         [] SubSeq(patch, 1, 2) = <<"3", ".">> -> "classic-wotlk"
         [] OTHER -> "mainline"

\* patch_to_interface: ok is FALSE for the panics of ensure and panicOnErr.
\* The arithmetic is that of int: a product that int cannot hold wraps
\* around without an error; wrapped says so, and val is then not the value
\* the program returns.
patch_to_interface(patch) ==
  LET bits == SplitN(patch, 3) IN
  IF ~(Len(bits) > 1) THEN [ok |-> FALSE, wrapped |-> FALSE, val |-> 0]
  ELSE IF ~Atoi(bits[1]).ok THEN [ok |-> FALSE, wrapped |-> FALSE, val |-> 0]
  ELSE IF ~Atoi(bits[2]).ok THEN [ok |-> FALSE, wrapped |-> FALSE, val |-> 0]
  ELSE IF \/ Magnitude(bits[1]) > IntDigits - 4
          \/ Magnitude(bits[2]) > IntDigits - 2
    THEN [ok |-> TRUE, wrapped |-> TRUE, val |-> 0]
  ELSE [ok |-> TRUE, wrapped |-> FALSE,
        val |-> (10000 * Atoi(bits[1]).val) + (100 * Atoi(bits[2]).val)]

\* The loop of gen_release_json taken from the last patch to the first.
metadata_reversed(PatchList) ==
  [k \in DOMAIN PatchList |->
     [tok |-> "object",
      flavor |-> patch_to_flavour(PatchList[Len(PatchList) + 1 - k]),
      interface |-> patch_to_interface(PatchList[Len(PatchList) + 1 - k])]]

\* The loop of gen_release_json: one rendered entry per patch, in order
\* (release_flavour_json filled in with flavour and iface).
metadata(PatchList) ==
  [k \in DOMAIN PatchList |->
     [tok |-> "object",
      flavor |-> patch_to_flavour(PatchList[k]),
      interface |-> patch_to_interface(PatchList[k])]]

\* The texts of release.json are sequences of tokens: "object" is a rendered
\* {flavor, interface} entry, the others are punctuation.
Comma == [tok |-> ","]
Open == [tok |-> "["]
Close == [tok |-> "]"]

\* strings.Join(elems, ", ") over rendered entries.
RECURSIVE Join(_)
Join(elems) ==
  IF elems = <<>> THEN <<>>
  ELSE IF Len(elems) = 1 THEN <<elems[1]>>
  ELSE <<elems[1], Comma>> \o Join(Tail(elems))

\* Whether gen_release_json panics: a patch that patch_to_flavour or
\* patch_to_interface does not take.
Malformed(patch) ==
  patch_to_flavour(patch) = "panic" \/ ~patch_to_interface(patch).ok

\* gen_release_json: the document as the fields that Sprintf fills in; the
\* metadata field is the text between "[" and "]".  "panic" when a patch
\* is malformed.
\* The PatchList of an addon that supports game version 10.1.0.
DefaultPatchList == << <<"1", "0", ".", "1", ".", "0">> >>

NoDoc == [kind |-> "none"]
PanicDoc == [kind |-> "panic"]

gen_release_json(a, PatchList, zip_output_filename) ==
  IF \E k \in DOMAIN PatchList : Malformed(PatchList[k]) THEN PanicDoc
  ELSE [kind |-> "json", version |-> a.version,
        filename |-> zip_output_filename, nolib |-> FALSE,
        metadata |-> <<Open>> \o Join(metadata(PatchList)) \o <<Close>>]

\* ------------------------------------------------------------------ git
NoTags == [t \in TagNames |-> 0]
\* A working copy: the branch, the tags, the artifact files it holds (file
\* name and whether the content is complete) and the content of release.json.
\* trees[k] is the release.json that commit hist[k] holds and index the
\* release.json staged for the next commit ("none": no such file).
AbsentDir == [exists |-> FALSE, hist |-> <<>>, tags |-> NoTags,
              zips |-> {}, json |-> "none", trees |-> <<>>, index |-> "none"]

\* The release.json of the last commit of a branch.
TipTree(trees) == IF trees = <<>> THEN "none" ELSE trees[Len(trees)]

\* A test that finds no file.
file_exists_never(dir, name) == FALSE

\* file_exists for a file of a working copy.
file_exists(dir, name) == \E f \in dir.zips : f.name = name

IsPrefix(s, t) == Len(s) =< Len(t) /\ \A k \in 1..Len(s) : s[k] = t[k]

Max(S) == IF S = {} THEN 0 ELSE CHOOSE x \in S : \A y \in S : y =< x

Range(f) == { f[x] : x \in DOMAIN f }

\* HEAD of a branch history; 0 when there is no commit.
Tip(hist) == IF hist = <<>> THEN 0 ELSE hist[Len(hist)]

\* Tags that `git describe --tags --abbrev=0` can print: the tags on the
\* commit nearest to HEAD that carries a tag.  Several tags on that commit
\* leave the choice to git.
TaggedPos(hist, tags) ==
  { k \in 1..Len(hist) : \E t \in TagNames : tags[t] = hist[k] }

DescribeTags(hist, tags) ==
  IF TaggedPos(hist, tags) = {} THEN {}
  ELSE { t \in TagNames : tags[t] = hist[Max(TaggedPos(hist, tags))] }

\* ------------------------------------------------------------------ state
VARIABLES
  remote,    \* slug -> [hist, tags]: the repository on the git server
  releases,  \* slug -> sequence of [tag, assets]: the hosted releases
  disk,      \* slug -> working copy below script_path
  pc,        \* position of the run: "idle", a step of mirror, "done", "aborted"
  list,      \* addon list of the current run
  idx,       \* position in list of the addon being processed
  cur,       \* current_version of mirror
  assets,    \* asset_list of create_tag_release
  ai,        \* position in asset_list of the upload loop
  relId,     \* release_result.GetID(): index in releases[slug]
  runs,      \* number of runs started
  nostarts,  \* number of commands whose process could not be started
  log,       \* operations attempted in the current run, in order
  plan,      \* the runs explored: the lists the addon source can serve, the
             \* number of runs made and the number of commands whose
             \* process does not start
  rerun,     \* when this run has the addon list of the previous run: "done"
             \* if that run returned, else the operation it aborted in;
             \* "no" otherwise
  observed,  \* slug -> the versions the fetched addon lists gave for it
  GITHUB_TOKEN, \* whether the environment of the current run has the variable
  patches,   \* Addon.PatchList of the addons the source serves
  doc        \* result of the last gen_release_json of the run

vars == <<remote, releases, disk, pc, list, idx, cur, assets, ai, relId,
          runs, nostarts, log, plan, rerun, observed, GITHUB_TOKEN, patches,
          doc>>

Steps == {"rm", "clone", "describe", "download", "render", "commit", "tag",
          "push", "pushtags", "create_release", "upload"}

addon == list[idx]
\* The repository of the first addon of the list, whatever idx is.
slug_first == list[1].slug

slug == addon.slug

Init ==
  /\ remote = [s \in Slugs |->
                 [hist |-> <<1>>, tags |-> NoTags, trees |-> <<"none">>]]
  /\ releases = [s \in Slugs |-> <<>>]
  /\ disk = [s \in Slugs |-> AbsentDir]
  /\ pc = "idle"
  /\ list = <<>>
  /\ idx = 0
  /\ cur = ""
  /\ assets = <<>>
  /\ ai = 0
  /\ relId = 0
  /\ runs = 0
  /\ nostarts = 0
  /\ log = <<>>
  /\ rerun = "no"
  /\ observed = [s \in Slugs |-> {}]
  /\ GITHUB_TOKEN = TRUE
  /\ patches = DefaultPatchList
  /\ doc = NoDoc
  /\ plan \in {[lists |-> AddonLists, runs |-> MaxRuns,
                nostarts |-> MaxNoStart],
               [lists |-> SeriesLists, runs |-> MaxSeries,
                nostarts |-> MaxNoStart]}

\* ------------------------------------------------------------------ run_cmd
\* What can happen to a command: "ok" the process ran and exited 0; "fail"
\* it exited non-zero for a reason of the environment (network, server,
\* disk); "refused" it exited non-zero because the state of the repository
\* leaves it no other outcome; "nostart" cmd.Run returned an error that is
\* not an ExitError (no process ran).  A command whose working directory is
\* missing cannot be started.
CmdOutcomes(cwdExists, canSucceed) ==
  IF ~cwdExists THEN {"nostart"}
  ELSE (IF canSucceed THEN {"ok", "fail"} ELSE {"refused"})
       \cup (IF nostarts < plan.nostarts THEN {"nostart"} ELSE {})

\* rc of run_cmd: it starts at 0 and only an ExitError sets it.
run_cmd(o) == IF o \in {"fail", "refused"} THEN 1 ELSE 0

\* run_all_cmd: ensure(rc == 0) lets the list go on, anything else panics.
run_all_cmd(o, next) == IF run_cmd(o) = 0 THEN next ELSE "aborted"

Entry(op, res, out) == [i |-> idx, op |-> op, res |-> res, out |-> out]

Counted(o, cwdExists) ==
  nostarts' = IF o = "nostart" /\ cwdExists THEN nostarts + 1 ELSE nostarts

\* Command lists of fetch_repo and tag_addon, and the body of the loop of
\* mirror in program order ("upload" is the loop of create_tag_release).
fetch_repo == <<"rm", "clone">>
tag_addon == <<"commit", "tag", "push", "pushtags">>
\* A release that is created and gets no asset.
create_tag_release_no_upload == <<"create_release">>

create_tag_release == <<"create_release", "upload">>
\* The loop body with the release made before the commit, tag and pushes.
mirror_release_first ==
  fetch_repo \o <<"describe", "download", "render">> \o create_tag_release
    \o tag_addon

\* The loop body with release.json rendered after the commit, tag and pushes.
mirror_render_late ==
  fetch_repo \o <<"describe", "download">> \o tag_addon \o <<"render">>
    \o create_tag_release

mirror ==
  fetch_repo \o <<"describe", "download", "render">> \o tag_addon
    \o create_tag_release

\* The step that follows `step` in the loop body; "next" ends the body.
After(step) ==
  LET k == CHOOSE n \in 1..Len(mirror) : mirror[n] = step IN
  IF k = Len(mirror) THEN "next" ELSE mirror[k + 1]

\* The loop of mirror moves to the next addon or returns.
NextAddon ==
  IF idx < Len(list)
    THEN /\ idx' = idx + 1
         /\ pc' = "rm"
    ELSE /\ idx' = idx
         /\ pc' = "done"

\* ------------------------------------------------------------------ main
\* The versions that list l gives for slug s.
VersionsOf(l, s) == { l[i].version : i \in { j \in DOMAIN l : l[j].slug = s } }

\* A lookup that takes a missing variable for a token.
github_token_unchecked(present) == TRUE

\* github_token: ensure(present) panics when GITHUB_TOKEN is not set.
github_token(present) == present

\* main: github_token, then mirror fetches the addon list.
Main ==
  /\ pc \in {"idle", "done", "aborted"}
  /\ runs < plan.runs
  /\ runs' = runs + 1
  /\ log' = <<>>
  /\ cur' = ""
  /\ assets' = <<>>
  /\ ai' = 0
  /\ relId' = 0
  /\ \E present \in BOOLEAN, fetched \in BOOLEAN, l \in plan.lists :
       /\ GITHUB_TOKEN' = present
       /\ IF github_token(present) /\ fetched
           THEN /\ list' = l
                /\ observed' = [s \in Slugs |->
                                  observed[s] \cup VersionsOf(l, s)]
                /\ rerun' = IF l # list \/ l = <<>> THEN "no"
                              ELSE IF pc = "done" THEN "done"
                              ELSE IF log = <<>> THEN "no"
                              ELSE log[Len(log)].op
                /\ idx' = IF l = <<>> THEN 0 ELSE 1
                /\ pc' = IF l = <<>> THEN "done" ELSE "rm"
           ELSE /\ list' = <<>>
                /\ observed' = observed
                /\ rerun' = "no"
                /\ idx' = 0
                /\ pc' = "aborted"
  /\ doc' = NoDoc
  /\ UNCHANGED <<remote, releases, disk, nostarts, plan, patches>>

Goto(target) ==
  IF target = "next" THEN NextAddon
  ELSE /\ pc' = target
       /\ idx' = idx

\* ------------------------------------------------------------------ fetch_repo
\* rm -rf <slug>, run in script_path.
Rm ==
  /\ pc = "rm"
  /\ \E o \in CmdOutcomes(TRUE, TRUE) :
       /\ disk' = IF o = "ok" THEN [disk EXCEPT ![slug] = AbsentDir] ELSE disk
       /\ log' = Append(log, Entry("rm", o, ""))
       /\ Counted(o, TRUE)
       /\ Goto(run_all_cmd(o, After("rm")))
  /\ UNCHANGED <<remote, releases, list, cur, assets, ai, relId, runs,
                 plan, rerun, observed, GITHUB_TOKEN, patches, doc>>

\* git clone ssh://git@github.com/ogri-la/<slug>, run in script_path.  It
\* refuses an existing directory; a clone copies the branch and all tags.
Clone ==
  /\ pc = "clone"
  /\ \E o \in CmdOutcomes(TRUE, ~disk[slug].exists) :
       /\ disk' = IF o = "ok"
                    THEN [disk EXCEPT ![slug] =
                            [exists |-> TRUE, hist |-> remote[slug].hist,
                             tags |-> remote[slug].tags, zips |-> {},
                             json |-> TipTree(remote[slug].trees),
                             trees |-> remote[slug].trees,
                             index |-> TipTree(remote[slug].trees)]]
                    ELSE disk
       /\ log' = Append(log, Entry("clone", o, ""))
       /\ Counted(o, TRUE)
       /\ Goto(run_all_cmd(o, After("clone")))
  /\ UNCHANGED <<remote, releases, list, cur, assets, ai, relId, runs,
                 plan, rerun, observed, GITHUB_TOKEN, patches, doc>>

\* ------------------------------------------------------------------ version
\* A comparison that never finds the addon up to date.
up_to_date_never(current_version, latest_version) ==
  current_version = latest_version /\ current_version # latest_version

\* mirror: current_version == latest_version skips the addon.
up_to_date(current_version, latest_version) ==
  current_version = latest_version

\* fetch_addon_version and the comparison of mirror that follows it.
\* stdout of `git describe --tags --abbrev=0`: the tag for exit 0; the
\* "No names found" failure and a process that did not start both give "".
Describe ==
  /\ pc = "describe"
  /\ LET d == disk[slug]
         names == DescribeTags(d.hist, d.tags) IN
     \E o \in CmdOutcomes(d.exists, TRUE) :
       \E out \in (IF o = "ok" /\ names # {} THEN names ELSE {""}) :
         LET res == IF o = "ok" /\ names = {} THEN "notags" ELSE o IN
         /\ log' = Append(log, Entry("describe", res, out))
         /\ Counted(o, d.exists)
         /\ cur' = out
         /\ IF run_cmd(o) # 0 THEN Goto("aborted")
            ELSE IF up_to_date(out, addon.version) THEN Goto("next")
            ELSE Goto(After("describe"))
  /\ UNCHANGED <<remote, releases, disk, list, assets, ai, relId, runs,
                 plan, rerun, observed, GITHUB_TOKEN, patches, doc>>

\* ------------------------------------------------------------------ download
\* TukuiMirror.download_addon: an existing file is returned as it is;
\* otherwise http.Get, ReadAll and WriteFile, each of which can fail.  A
\* failing WriteFile can leave the file it created.
Download ==
  /\ pc = "download"
  /\ LET d == disk[slug]
         zip == ZipName(addon) IN
     IF file_exists(d, zip)
       THEN /\ Goto(After("download"))
            /\ UNCHANGED <<disk, log>>
       ELSE \E o \in (IF d.exists THEN {"ok", "partial"} ELSE {}) \cup {"fail"} :
              /\ disk' =
                   IF o = "fail" THEN disk
                   ELSE [disk EXCEPT ![slug].zips =
                           @ \cup {[name |-> zip,
                                    full |-> (o = "ok")]}]
              /\ log' = Append(log, Entry("http_get", o, zip))
              /\ Goto(IF o = "ok" THEN After("download") ELSE "aborted")
  /\ UNCHANGED <<remote, releases, list, cur, assets, ai, relId, runs,
                 nostarts, plan, rerun, observed, GITHUB_TOKEN, patches,
                 doc>>

\* gen_release_json and write_release_json; zip_output_path and
\* release_json_path are the two paths handed to create_tag_release.  A
\* panic of gen_release_json ends the run before anything is written.
Render ==
  /\ pc = "render"
  /\ LET release_json == gen_release_json(addon, patches, ZipName(addon)) IN
     /\ doc' = release_json
     /\ IF release_json.kind = "panic"
          THEN /\ log' = Append(log, Entry("gen_release_json", "fail", ""))
               /\ Goto("aborted")
               /\ UNCHANGED <<disk, assets>>
          ELSE \E o \in (IF disk[slug].exists THEN {"ok"} ELSE {})
                          \cup {"fail"} :
                 /\ disk' = IF o = "ok"
                              THEN [disk EXCEPT ![slug].json = addon.version]
                              ELSE disk
                 /\ assets' = IF o = "ok"
                                THEN <<ZipName(addon), ReleaseJsonName>>
                                ELSE assets
                 /\ log' = Append(log, Entry("write_json", o, ReleaseJsonName))
                 /\ Goto(IF o = "ok" THEN After("render") ELSE "aborted")
  /\ UNCHANGED <<remote, releases, list, cur, ai, relId, runs, nostarts,
                 plan, rerun, observed, GITHUB_TOKEN, patches>>

\* ------------------------------------------------------------------ tag_addon
\* A commit id no repository of the slug uses.
FreshId(s) ==
  1 + Max(Range(remote[s].hist) \cup Range(remote[s].tags)
          \cup Range(disk[s].hist) \cup Range(disk[s].tags))

\* git commit -m <version> --allow-empty.  With an empty version the shell
\* drops the empty word, "--allow-empty" becomes the message and the commit
\* has nothing to commit.  The commit records the index: no command of the
\* program stages a file, so the index is the one the clone checked out.
Commit ==
  /\ pc = "commit"
  /\ LET d == disk[slug] IN
     \E o \in CmdOutcomes(d.exists, addon.version # "") :
       /\ disk' = IF o = "ok"
                    THEN [disk EXCEPT ![slug].hist = Append(@, FreshId(slug)),
                                      ![slug].trees = Append(@, d.index)]
                    ELSE disk
       /\ log' = Append(log, Entry("commit", o, ""))
       /\ Counted(o, d.exists)
       /\ Goto(run_all_cmd(o, After("commit")))
  /\ UNCHANGED <<remote, releases, list, cur, assets, ai, relId, runs,
                 plan, rerun, observed, GITHUB_TOKEN, patches, doc>>

\* A tag name that is not the version.
tag_name_other(version) == CHOOSE t \in TagNames : t # version

\* "git tag " + version: the name the tag command is given.
tag_name(version) == version

\* git tag <version>: fails when the tag exists; with an empty version it
\* is `git tag`, which lists the tags.
Tag ==
  /\ pc = "tag"
  /\ LET d == disk[slug]
         v == tag_name(addon.version) IN
     \E o \in CmdOutcomes(d.exists, v = "" \/ d.tags[v] = 0) :
       /\ disk' = IF o = "ok" /\ v # ""
                    THEN [disk EXCEPT ![slug].tags[v] = Tip(d.hist)]
                    ELSE disk
       /\ log' = Append(log, Entry("tag", o, v))
       /\ Counted(o, d.exists)
       /\ Goto(run_all_cmd(o, After("tag")))
  /\ UNCHANGED <<remote, releases, list, cur, assets, ai, relId, runs,
                 plan, rerun, observed, GITHUB_TOKEN, patches, doc>>

\* git push: the branch, fast-forward only.
Push ==
  /\ pc = "push"
  /\ LET d == disk[slug] IN
     \E o \in CmdOutcomes(d.exists, IsPrefix(remote[slug].hist, d.hist)) :
       /\ remote' = IF o = "ok"
                      THEN [remote EXCEPT ![slug].hist = d.hist,
                                          ![slug].trees = d.trees]
                      ELSE remote
       /\ log' = Append(log, Entry("push", o, ""))
       /\ Counted(o, d.exists)
       /\ Goto(run_all_cmd(o, After("push")))
  /\ UNCHANGED <<releases, disk, list, cur, assets, ai, relId, runs,
                 plan, rerun, observed, GITHUB_TOKEN, patches, doc>>

\* git push --tags: every local tag; a tag the server has elsewhere is
\* rejected.
PushTags ==
  /\ pc = "pushtags"
  /\ LET d == disk[slug]
         r == remote[slug]
         accepted == \A t \in TagNames :
                       d.tags[t] # 0 /\ r.tags[t] # 0 => d.tags[t] = r.tags[t]
     IN
     \E o \in CmdOutcomes(d.exists, accepted) :
       /\ remote' = IF o = "ok"
                      THEN [remote EXCEPT ![slug].tags =
                              [t \in TagNames |->
                                 IF d.tags[t] # 0 THEN d.tags[t] ELSE r.tags[t]]]
                      ELSE remote
       /\ log' = Append(log, Entry("pushtags", o, ""))
       /\ Counted(o, d.exists)
       /\ Goto(run_all_cmd(o, After("pushtags")))
  /\ UNCHANGED <<releases, disk, list, cur, assets, ai, relId, runs,
                 plan, rerun, observed, GITHUB_TOKEN, patches, doc>>

\* ------------------------------------------------------------------ release
\* create_tag_release up to its loop: Repositories.CreateRelease with
\* TagName = addon.Version.  The service stores the release; for a tag the
\* repository lacks it may create the tag at the branch head ("tagged") or
\* leave the repository alone ("ok").
CreateRelease ==
  /\ pc = "create_release"
  /\ LET v == addon.version
         untagged == v \in TagNames /\ remote[slug].tags[v] = 0 IN
     \E o \in {"ok", "fail"} \cup (IF untagged THEN {"tagged"} ELSE {}) :
       /\ releases' =
            IF o # "fail"
              THEN [releases EXCEPT ![slug] =
                      Append(@, [tag |-> v, assets |-> <<>>])]
              ELSE releases
       /\ remote' =
            IF o = "tagged"
              THEN [remote EXCEPT ![slug].tags[v] = Tip(remote[slug].hist)]
              ELSE remote
       /\ relId' = IF o # "fail" THEN Len(releases[slug]) + 1 ELSE relId
       /\ ai' = IF o # "fail" THEN 1 ELSE ai
       /\ log' = Append(log, Entry("create_release",
                                   IF o = "fail" THEN "fail" ELSE "ok", v))
       /\ Goto(IF o = "fail" THEN "aborted"
               ELSE IF assets = <<>> THEN After("upload")
               ELSE After("create_release"))
  /\ UNCHANGED <<disk, list, cur, assets, runs, nostarts, plan, rerun,
                 observed, GITHUB_TOKEN, patches, doc>>

\* An error that is passed over: the caller goes on.
panicOnErr_ignored(o, next) == next

\* panicOnErr: a non-nil error panics.
panicOnErr(o, next) == IF o = "fail" THEN "aborted" ELSE next

\* One turn of the loop of create_tag_release: guess_media_type, os.Open
\* and Repositories.UploadReleaseAsset for asset_list[ai].
Upload ==
  /\ pc = "upload"
  /\ LET asset == assets[ai]
         media == guess_media_type(asset) IN
     IF media = ""
       THEN /\ Goto("aborted")
            /\ UNCHANGED <<releases, ai, log>>
       ELSE \E o \in {"ok", "fail"} :
              /\ releases' =
                   IF o = "ok"
                     THEN [releases EXCEPT ![slug][relId].assets =
                             Append(@, [name |-> asset, media |-> media])]
                     ELSE releases
              /\ ai' = IF o = "ok" THEN ai + 1 ELSE ai
              /\ log' = Append(log, Entry("upload", o, asset))
              /\ Goto(panicOnErr(o, IF ai = Len(assets)
                                       THEN After("upload")
                                       ELSE "upload"))
  /\ UNCHANGED <<remote, disk, list, cur, assets, relId, runs, nostarts,
                 plan, rerun, observed, GITHUB_TOKEN, patches, doc>>

\* ------------------------------------------------------------------ assets
\* Asset lists for create_tag_release called on its own.
MaxAssets == 3

AssetNameSet ==
  {<<"elvui", "--", "13.33", ".zip">>, <<"elvui", "--", "13.33", ".ZIP">>,
   ReleaseJsonName, <<"elvui", "--", "13.33", ".tar">>}

AssetLists == UNION { [1..n -> AssetNameSet] : n \in 0..MaxAssets }

InitAssets ==
  /\ remote = [s \in Slugs |->
                 [hist |-> <<1>>, tags |-> NoTags, trees |-> <<"none">>]]
  /\ releases = [s \in Slugs |-> <<>>]
  /\ disk = [s \in Slugs |-> AbsentDir]
  /\ pc = "create_release"
  /\ list = <<[slug |-> "elvui", version |-> "13.33"]>>
  /\ idx = 1
  /\ cur = ""
  /\ assets \in AssetLists
  /\ ai = 0
  /\ relId = 0
  /\ runs = 0
  /\ nostarts = 0
  /\ log = <<>>
  /\ rerun = "no"
  /\ observed = [s \in Slugs |-> {}]
  /\ GITHUB_TOKEN = TRUE
  /\ patches = DefaultPatchList
  /\ doc = NoDoc
  /\ plan = [lists |-> {}, runs |-> 0, nostarts |-> MaxNoStart]

NextAssets ==
  \/ CreateRelease
  \/ Upload

SpecAssets == InitAssets /\ [][NextAssets]_vars

\* ------------------------------------------------------------------ download
\* download_addon called on its own, for an addon whose directory holds any
\* artifact files (complete or truncated) or does not exist.
ZipFiles(s) ==
  [name : { ZipName([slug |-> s, version |-> v]) : v \in Versions },
   full : BOOLEAN]

ZipSets(s) ==
  { z \in SUBSET ZipFiles(s) :
      \A f, g \in z : f.name = g.name => f = g }

ClonedDir(zips) ==
  [exists |-> TRUE, hist |-> <<1>>, tags |-> NoTags, zips |-> zips,
   json |-> "none", trees |-> <<"none">>, index |-> "none"]

InitDownload ==
  /\ remote = [s \in Slugs |->
                 [hist |-> <<1>>, tags |-> NoTags, trees |-> <<"none">>]]
  /\ releases = [s \in Slugs |-> <<>>]
  /\ pc = "download"
  /\ list \in { l \in AddonLists : Len(l) = 1 }
  /\ idx = 1
  /\ \E dir \in {AbsentDir} \cup { ClonedDir(z) : z \in ZipSets(list[1].slug) } :
       disk = [s \in Slugs |-> IF s = list[1].slug THEN dir ELSE AbsentDir]
  /\ cur \in Versions \ {list[1].version}
  /\ assets = <<>>
  /\ ai = 0
  /\ relId = 0
  /\ runs = 0
  /\ nostarts = 0
  /\ log = <<>>
  /\ rerun = "no"
  /\ observed = [s \in Slugs |-> VersionsOf(list, s)]
  /\ GITHUB_TOKEN = TRUE
  /\ patches = DefaultPatchList
  /\ doc = NoDoc
  /\ plan = [lists |-> {}, runs |-> 0, nostarts |-> MaxNoStart]

NextDownload ==
  \/ Download
  \/ Render

SpecDownload == InitDownload /\ [][NextDownload]_vars

\* ------------------------------------------------------------------ version
\* gen_release_json called for an addon with one patch: every string of up
\* to MaxPatchLen characters, and two patches with a long major number.
MaxPatchLen == 6

PatchChars == {"0", "1", "2", "3", ".", "x"}

Nines(n) == [k \in 1..n |-> "9"]

\* A major number that int does not hold, and one that it holds.
LongPatches ==
  {Nines(IntDigits + 1) \o <<".", "1">>, Nines(IntDigits - 3) \o <<".", "1">>}

PatchStrings ==
  UNION { [1..n -> PatchChars] : n \in 0..MaxPatchLen } \cup LongPatches

InitVersion ==
  /\ remote = [s \in Slugs |->
                 [hist |-> <<1>>, tags |-> NoTags, trees |-> <<"none">>]]
  /\ releases = [s \in Slugs |-> <<>>]
  /\ pc = "render"
  /\ list = <<[slug |-> "elvui", version |-> "13.33"]>>
  /\ idx = 1
  /\ disk = [s \in Slugs |->
               IF s = "elvui"
                 THEN ClonedDir({[name |-> ZipName(list[1]), full |-> TRUE]})
                 ELSE AbsentDir]
  /\ cur = ""
  /\ assets = <<>>
  /\ ai = 0
  /\ relId = 0
  /\ runs = 0
  /\ nostarts = 0
  /\ log = <<>>
  /\ rerun = "no"
  /\ observed = [s \in Slugs |-> VersionsOf(list, s)]
  /\ GITHUB_TOKEN = TRUE
  /\ patches \in { <<p>> : p \in PatchStrings }
  /\ doc = NoDoc
  /\ plan = [lists |-> {}, runs |-> 0, nostarts |-> MaxNoStart]

NextVersion == Render

SpecVersion == InitVersion /\ [][NextVersion]_vars

\* ------------------------------------------------------------------ render
\* The loop body of mirror from download_addon on, for one addon whose
\* PatchList is any list of up to MaxPatches patches of up to MaxPoolLen
\* characters.
MaxPatches == 2
MaxPoolLen == 4

PoolChars == {"1", "."}

PatchPool == UNION { [1..n -> PoolChars] : n \in 0..MaxPoolLen }

PatchLists == UNION { [1..n -> PatchPool] : n \in 0..MaxPatches }

InitRender ==
  /\ remote = [s \in Slugs |->
                 [hist |-> <<1>>, tags |-> NoTags, trees |-> <<"none">>]]
  /\ releases = [s \in Slugs |-> <<>>]
  /\ pc = "download"
  /\ list = <<[slug |-> "elvui", version |-> "13.33"]>>
  /\ idx = 1
  /\ disk = [s \in Slugs |->
               IF s = "elvui" THEN ClonedDir({}) ELSE AbsentDir]
  /\ cur = ""
  /\ assets = <<>>
  /\ ai = 0
  /\ relId = 0
  /\ runs = 0
  /\ nostarts = 0
  /\ log = <<>>
  /\ rerun = "no"
  /\ observed = [s \in Slugs |-> VersionsOf(list, s)]
  /\ GITHUB_TOKEN = TRUE
  /\ patches \in PatchLists
  /\ doc = NoDoc
  /\ plan = [lists |-> {}, runs |-> 0, nostarts |-> MaxNoStart]

NextRender ==
  \/ Download
  \/ Render
  \/ Commit
  \/ Tag
  \/ Push
  \/ PushTags
  \/ CreateRelease
  \/ Upload

SpecRender == InitRender /\ [][NextRender]_vars

\* Runs over one addon that follow a run for version 13.33 which was aborted
\* by a failing `git push`: the working copy holds the artifact, release.json,
\* a commit and a tag that the remote repository lacks.  Up to MaxStale
\* commands of the runs cannot be started.
MaxStale == 2

StaleAddon == [slug |-> "elvui", version |-> "13.33"]

StaleDir ==
  [exists |-> TRUE, hist |-> <<1, 2>>,
   tags |-> [t \in TagNames |-> IF t = StaleAddon.version THEN 2 ELSE 0],
   zips |-> {[name |-> ZipName(StaleAddon), full |-> TRUE]},
   json |-> StaleAddon.version, trees |-> <<"none", "none">>,
   index |-> "none"]

StaleLog ==
  << [i |-> 1, op |-> "rm", res |-> "ok", out |-> ""],
     [i |-> 1, op |-> "clone", res |-> "ok", out |-> ""],
     [i |-> 1, op |-> "describe", res |-> "notags", out |-> ""],
     [i |-> 1, op |-> "http_get", res |-> "ok", out |-> ZipName(StaleAddon)],
     [i |-> 1, op |-> "write_json", res |-> "ok", out |-> ReleaseJsonName],
     [i |-> 1, op |-> "commit", res |-> "ok", out |-> ""],
     [i |-> 1, op |-> "tag", res |-> "ok", out |-> StaleAddon.version],
     [i |-> 1, op |-> "push", res |-> "fail", out |-> ""] >>

InitStale ==
  /\ remote = [s \in Slugs |->
                 [hist |-> <<1>>, tags |-> NoTags, trees |-> <<"none">>]]
  /\ releases = [s \in Slugs |-> <<>>]
  /\ disk = [s \in Slugs |->
               IF s = StaleAddon.slug THEN StaleDir ELSE AbsentDir]
  /\ pc = "aborted"
  /\ list = <<StaleAddon>>
  /\ idx = 1
  /\ cur = ""
  /\ assets = <<ZipName(StaleAddon), ReleaseJsonName>>
  /\ ai = 0
  /\ relId = 0
  /\ runs = 0
  /\ nostarts = 0
  /\ log = StaleLog
  /\ rerun = "no"
  /\ observed = [s \in Slugs |-> VersionsOf(list, s)]
  /\ GITHUB_TOKEN = TRUE
  /\ patches = DefaultPatchList
  /\ doc = gen_release_json(StaleAddon, DefaultPatchList, ZipName(StaleAddon))
  /\ plan = [lists |-> SeriesLists, runs |-> MaxRuns, nostarts |-> MaxStale]

NextStale ==
  \/ Main
  \/ Rm
  \/ Clone
  \/ Describe
  \/ Download
  \/ Render
  \/ Commit
  \/ Tag
  \/ Push
  \/ PushTags
  \/ CreateRelease
  \/ Upload

SpecStale == InitStale /\ [][NextStale]_vars

\* ------------------------------------------------------------------ spec
Next ==
  \/ Main
  \/ Rm
  \/ Clone
  \/ Describe
  \/ Download
  \/ Render
  \/ Commit
  \/ Tag
  \/ Push
  \/ PushTags
  \/ CreateRelease
  \/ Upload

Spec == Init /\ [][Next]_vars

TypeOK ==
  /\ pc \in Steps \cup {"idle", "done", "aborted"}
  /\ runs \in 0..plan.runs
  /\ nostarts \in 0..plan.nostarts
  /\ list \in AddonLists
  /\ GITHUB_TOKEN \in BOOLEAN
  /\ \A s \in Slugs : observed[s] \subseteq Versions
  /\ \A s \in Slugs : Len(remote[s].trees) = Len(remote[s].hist)

\* ------------------------------------------------------------------ views
\* The log entries of the addon at position i, and their operations.
EntriesAt(i) == SelectSeq(log, LAMBDA e : e.i = i)
OpsAt(i) == [k \in DOMAIN EntriesAt(i) |-> EntriesAt(i)[k].op]

\* An entry that reports an operation that did not do its work.
Unsuccessful(e) == e.res \in {"fail", "refused", "nostart", "partial"}

\* Processing of the addon at position i is over.
Finished(i) == i < idx \/ pc \in {"done", "aborted"}

AssetNames(r) == [k \in DOMAIN r.assets |-> r.assets[k].name]

RemoteTagged(a) ==
  a.version \in TagNames /\ remote[a.slug].tags[a.version] # 0

ReleasesOf(a) ==
  { n \in DOMAIN releases[a.slug] : releases[a.slug][n].tag = a.version }

\* The published state of a failure-free run for addon a.
Published(a) ==
  /\ RemoteTagged(a)
  /\ \E n \in ReleasesOf(a) :
       AssetNames(releases[a.slug][n]) = <<ZipName(a), ReleaseJsonName>>

\* ------------------------------------------------------------------ properties
\* C1: a run that follows a run that returned, with the same addon list,
\* attempts nothing but the reset (rm, clone) and the tag query.
C1_SecondRunOnlyQueries ==
  rerun = "done" =>
    \A k \in DOMAIN log : log[k].op \in {"rm", "clone", "describe"}

\* C2: when a run aborted after the download of an addon (in the write of
\* release.json, the commit, the tag, a push, the release creation or an
\* upload), a further run with the same list and no failure ends with every
\* addon of the list published: tag in the remote repository and a release
\* carrying both assets.
AbortPoints == {"write_json", "commit", "tag", "push", "pushtags",
                "create_release", "upload"}

C2_RerunConverges ==
  ( /\ rerun \in AbortPoints
    /\ pc = "done"
    /\ \A k \in DOMAIN log : ~Unsuccessful(log[k]) )
  => \A i \in DOMAIN list : Published(list[i])

\* C3: every hosted release carries a tag that the remote repository has, and
\* a release is created only after commit, tag, push and push --tags all
\* succeeded for the addon.
TagAddonSucceeded(i) ==
  \A c \in {"commit", "tag", "push", "pushtags"} :
    \E k \in DOMAIN log : log[k].i = i /\ log[k].op = c /\ log[k].res = "ok"

C3_ReleaseAfterRemoteTag ==
  /\ \A s \in Slugs : \A n \in DOMAIN releases[s] :
       RemoteTagged([slug |-> s, version |-> releases[s][n].tag])
  /\ \A k \in DOMAIN log :
       log[k].op = "create_release" => TagAddonSucceeded(log[k].i)

\* C4: when the tag query gives addon.version, nothing more is attempted for
\* the addon and the run goes on with the next addon of the list (or returns
\* after the last).
Skips(k) ==
  /\ log[k].op = "describe"
  /\ ~Unsuccessful(log[k])
  /\ log[k].out = list[log[k].i].version

C4_SkipWhenUpToDate ==
  \A k \in DOMAIN log :
    Skips(k) =>
      IF k < Len(log)
        THEN log[k + 1].i = log[k].i + 1 /\ log[k + 1].op = "rm"
        ELSE \/ pc = "rm" /\ idx = log[k].i + 1
             \/ pc = "done" /\ idx = log[k].i /\ idx = Len(list)

\* A skip decided on a tag that a run pushed.
C4_Witness ==
  \E k \in DOMAIN log :
    Skips(k) /\ log[k].res = "ok" /\ log[k].out \in TagNames /\ pc = "done"

\* C5: when the tag query gives something else than addon.version (a version
\* in use as a tag name) and nothing of the environment fails, processing the
\* addon ends with the remote repository tagged addon.version and a release
\* tagged addon.version.  Stated for runs in which every process started.
EnvFailure(e) == e.res \in {"fail", "nostart", "partial"}

NeedsUpdate(i) ==
  \E k \in DOMAIN log :
    /\ log[k].i = i
    /\ log[k].op = "describe"
    /\ ~Unsuccessful(log[k])
    /\ log[k].out # list[i].version

C5_DifferentMeansUpdate ==
  nostarts = 0 =>
    \A i \in DOMAIN list :
      ( /\ Finished(i)
        /\ NeedsUpdate(i)
        /\ list[i].version \in TagNames
        /\ \A k \in DOMAIN log : log[k].i = i => ~EnvFailure(log[k]) )
      => RemoteTagged(list[i]) /\ ReleasesOf(list[i]) # {}

\* C6: no two hosted releases of a slug carry the same version.
C6_OneReleasePerVersion ==
  \A s \in Slugs : \A n, m \in DOMAIN releases[s] :
    n # m => releases[s][n].tag # releases[s][m].tag

\* C7: after an operation failed for the addon at position N, nothing is
\* attempted for the addons at the positions after N.
C7_FailFast ==
  \A j, k \in DOMAIN log :
    j < k /\ Unsuccessful(log[j]) => log[k].i =< log[j].i

\* C8: the operations attempted for an addon come in program order (the
\* HTTP fetch is left out when the artifact file exists), and a release whose
\* uploads are through carries the artifact and then release.json.
StepOrder ==
  <<"rm", "clone", "describe", "http_get", "write_json", "commit", "tag",
    "push", "pushtags", "create_release", "upload", "upload">>

StepOrderCached == SelectSeq(StepOrder, LAMBDA op : op # "http_get")

Released(i) ==
  \E k \in DOMAIN log :
    log[k].i = i /\ log[k].op = "create_release" /\ log[k].res = "ok"

LastRelease(s) == releases[s][Len(releases[s])]

C8_StepOrder ==
  \A i \in DOMAIN list :
    /\ IsPrefix(OpsAt(i), StepOrder) \/ IsPrefix(OpsAt(i), StepOrderCached)
    /\ Released(i) =>
         /\ LastRelease(list[i].slug).tag = list[i].version
         /\ IsPrefix(AssetNames(LastRelease(list[i].slug)),
                     <<ZipName(list[i]), ReleaseJsonName>>)
         /\ (i < idx \/ pc = "done") =>
              AssetNames(LastRelease(list[i].slug))
                = <<ZipName(list[i]), ReleaseJsonName>>

\* An addon that went through all twelve operations.
C8_Witness ==
  /\ pc = "done"
  /\ \E i \in DOMAIN list :
       /\ OpsAt(i) = StepOrder
       /\ \A k \in DOMAIN log : ~Unsuccessful(log[k])

\* C9: create_tag_release fails for an asset list that holds an asset whose
\* extension is neither .zip nor .json, and has uploaded nothing when it
\* fails.
HasUnknownAsset == \E k \in DOMAIN assets : guess_media_type(assets[k]) = ""

C9_UnknownAssetNoUpload ==
  HasUnknownAsset =>
    /\ pc # "done"
    /\ pc = "aborted" =>
         \A s \in Slugs : \A n \in DOMAIN releases[s] :
           releases[s][n].assets = <<>>

\* C10: when the run returned, every addon whose tag differed from its
\* version has its tag in the remote repository and a release with the two
\* assets <slug>--<version>.zip and release.json.
C10_PostCondition ==
  pc = "done" =>
    \A i \in DOMAIN list : NeedsUpdate(i) => Published(list[i])

\* The release.json held by commit id of repository r; "none" when the
\* branch of r does not have the commit.
TreeAt(r, id) ==
  IF \E n \in 1..Len(r.hist) : r.hist[n] = id
    THEN r.trees[CHOOSE n \in 1..Len(r.hist) : r.hist[n] = id]
    ELSE "none"

\* C11: once commit, tag, push and push --tags succeeded for an addon, the
\* commit that the remote repository has under the tag addon.version holds
\* the release.json written for that version.
C11_TaggedCommitHasJson ==
  \A i \in DOMAIN list :
    TagAddonSucceeded(i) =>
      /\ RemoteTagged(list[i])
      /\ TreeAt(remote[list[i].slug],
                remote[list[i].slug].tags[list[i].version]) = list[i].version

\* C12: every tag of an addon's remote repository is a version that the
\* addon list of some run gave for that addon.
C12_TagProvenance ==
  \A s \in Slugs : \A t \in TagNames :
    remote[s].tags[t] # 0 => t \in observed[s]

\* A tag that reached the remote repository through tag_addon.
C12_Witness ==
  /\ pc \in Steps \cup {"done"}
  /\ \E k \in DOMAIN log :
       /\ log[k].op = "pushtags"
       /\ log[k].res = "ok"
       /\ RemoteTagged(list[log[k].i])

\* A step leaves the remote repository and the releases of every addon
\* before position idx as they are.
EarlierKept ==
  \A i \in 1..(idx - 1) :
    /\ remote'[list[i].slug] = remote[list[i].slug]
    /\ releases'[list[i].slug] = releases[list[i].slug]

\* C13: while the addon at position idx is processed, whatever the outcome
\* of a step (the abort of the run included), the remote repository and the
\* hosted releases of every addon at an earlier position of the list stay
\* exactly as they are.
C13_EarlierAddonsKept == [][(pc \in Steps) => EarlierKept]_vars

\* The run aborted in the second addon after the first was published.
C13_Witness ==
  /\ pc = "aborted"
  /\ idx = 2
  /\ Published(list[1])
  /\ \E k \in DOMAIN log :
       log[k].i = 1 /\ log[k].op = "upload" /\ log[k].out = ReleaseJsonName
  /\ \E k \in DOMAIN log : log[k].i = 2 /\ log[k].op = "push"

\* The assets whose upload succeeded for the addon at position i, in order.
UploadedAt(i) ==
  LET done == SelectSeq(log, LAMBDA e :
                e.i = i /\ e.op = "upload" /\ e.res = "ok")
  IN [k \in DOMAIN done |-> done[k].out]

\* C14: a failed upload is the last thing the run attempts: the run is
\* aborted, and the release created for the addon is still there with its
\* tag and with exactly the assets uploaded before the failure.
C14_UploadFailureStops ==
  \A k \in DOMAIN log :
    (log[k].op = "upload" /\ log[k].res = "fail") =>
      /\ k = Len(log)
      /\ pc = "aborted"
      /\ LastRelease(list[log[k].i].slug).tag = list[log[k].i].version
      /\ AssetNames(LastRelease(list[log[k].i].slug)) = UploadedAt(log[k].i)

\* The upload of release.json failed after the artifact was uploaded.
C14_Witness ==
  /\ log # <<>>
  /\ log[Len(log)].op = "upload"
  /\ log[Len(log)].res = "fail"
  /\ log[Len(log)].out = ReleaseJsonName
  /\ AssetNames(LastRelease(slug)) = <<ZipName(addon)>>

\* The commands of tag_addon attempted for the addon at position i, in order.
TagOpsAt(i) == SelectSeq(OpsAt(i), LAMBDA op : op \in Range(tag_addon))

\* C15: the commands of tag_addon are attempted in the order commit, tag,
\* push, push --tags; a command that did not succeed is the last command of
\* tag_addon attempted for the addon; and push --tags is attempted only after
\* a successful push of the branch.
C15_TagAddonStopsAtFailure ==
  \A i \in DOMAIN list :
    /\ IsPrefix(TagOpsAt(i), tag_addon)
    /\ \A j, k \in DOMAIN log :
         ( /\ j < k
           /\ log[j].i = i
           /\ log[k].i = i
           /\ log[j].op \in Range(tag_addon)
           /\ log[k].op \in Range(tag_addon) )
         => ~Unsuccessful(log[j])
    /\ \A k \in DOMAIN log :
         (log[k].i = i /\ log[k].op = "pushtags") =>
           \E j \in 1..(k - 1) :
             log[j].i = i /\ log[j].op = "push" /\ log[j].res = "ok"

\* download_addon is about to run and the artifact file is there.
CacheHit ==
  /\ pc = "download"
  /\ \E f \in disk[slug].zips : f.name = ZipName(addon)

\* A step that returns from download_addon with nothing fetched or written.
CacheHitKept ==
  /\ pc' = "render"
  /\ disk' = disk
  /\ log' = log

\* C16: when download_addon is called and a file with the name
\* <slug>--<version>.zip is in the addon's directory, the call returns (the
\* pipeline is at the rendering of release.json), no HTTP request is logged
\* and the directory, the file's content included, is unchanged.
C16_CacheHitNoFetch == [][CacheHit => CacheHitKept]_vars

\* download_addon returned without a request on a truncated file.
C16_Witness ==
  /\ pc = "render"
  /\ log = <<>>
  /\ [name |-> ZipName(addon), full |-> FALSE] \in disk[slug].zips

\* C17: after a failed download_addon no file <slug>--<version>.zip is in
\* the addon's directory.
C17_NoPartialArtifact ==
  \A k \in DOMAIN log :
    (log[k].op = "http_get" /\ Unsuccessful(log[k])) =>
      ~ \E f \in disk[list[log[k].i].slug].zips : f.name = log[k].out

\* What a step of fetch_addon_version gives, by the state of the working
\* copy and the exit of the query.
DescribeOutcome ==
  LET d == disk[slug]
      names == DescribeTags(d.hist, d.tags)
      e == log'[Len(log')]
  IN /\ e.op = "describe"
     /\ e.res = "fail" => pc' = "aborted"
     /\ e.res # "fail" =>
          /\ pc' # "aborted"
          /\ IF names = {} THEN cur' = "" ELSE cur' \in names

\* C18: the tag query of an addon aborts the run when it exits non-zero for
\* another reason than the lack of tags; otherwise the run goes on, with ""
\* as the current version when the working copy has no tag and with the tag
\* nearest to HEAD when it has tags.
C18_TagQueryOutcomes == [][(pc = "describe") => DescribeOutcome]_vars

\* A working copy as `git clone` makes it from the remote repository of s.
FreshClone(s) ==
  [exists |-> TRUE, hist |-> remote[s].hist, tags |-> remote[s].tags,
   zips |-> {}, json |-> TipTree(remote[s].trees),
   trees |-> remote[s].trees, index |-> TipTree(remote[s].trees)]

\* C19: when fetch_repo has returned for an addon (the tag query is next),
\* the addon's directory is a fresh clone of the remote repository; a clone
\* that did not succeed is the last thing the run attempts, the run is
\* aborted and the addon's directory does not exist.
C19_ResetThenClone ==
  /\ pc = "describe" => disk[slug] = FreshClone(slug)
  /\ \A k \in DOMAIN log :
       (log[k].op = "clone" /\ Unsuccessful(log[k])) =>
         /\ k = Len(log)
         /\ pc = "aborted"
         /\ ~disk[list[log[k].i].slug].exists

\* A step that ends in the aborted state with nothing fetched or changed.
AbortedAtStartup ==
  /\ pc' = "aborted"
  /\ list' = <<>>
  /\ log' = <<>>
  /\ observed' = observed
  /\ UNCHANGED <<remote, releases, disk>>

\* C20: a run started without GITHUB_TOKEN is aborted with no addon list
\* fetched, and the step that starts it changes no working copy, no remote
\* repository and no release.
C20_NoTokenNoWork == [][(~GITHUB_TOKEN') => AbortedAtStartup]_vars

\* A run without the token that follows a run which left a working copy.
C20_Witness ==
  /\ ~GITHUB_TOKEN
  /\ pc = "aborted"
  /\ runs > 1
  /\ \E s \in Slugs : disk[s].exists

\* ------------------------------------------------------------------ patches
\* The flavour the table gives for a patch of at least 2 characters.
FlavourOf(patch) ==
  IF IsPrefix(<<"1", ".">>, patch) THEN "classic"
  ELSE IF IsPrefix(<<"2", ".">>, patch) THEN "classic-tbc"
  ELSE IF IsPrefix(<<"3", ".">>, patch) THEN "classic-wotlk"
  ELSE "mainline"

RECURSIVE Components(_)
Components(s) ==
  IF IndexDot(s) = 0 THEN <<s>>
  ELSE <<SubSeq(s, 1, IndexDot(s) - 1)>>
         \o Components(SubSeq(s, IndexDot(s) + 1, Len(s)))

\* A decimal integer: one digit or more, nothing else.
IsDecimal(c) == c # <<>> /\ \A k \in DOMAIN c : c[k] \in Digits

\* C22: for a patch whose first two components are decimal integers
\* patch_to_interface returns 10000*major + 100*minor; for a patch with
\* fewer than two components, or with a first or second component that is
\* empty or not a number, it fails.
C22_InterfaceId ==
  \A k \in DOMAIN patches :
    LET c == Components(patches[k])
        r == patch_to_interface(patches[k])
    IN IF Len(c) >= 2 /\ IsDecimal(c[1]) /\ IsDecimal(c[2])
         THEN /\ r.ok
              /\ ~r.wrapped
              /\ r.val = 10000 * Value(c[1]) + 100 * Value(c[2])
         ELSE ~r.ok

\* The text is "[", entries separated by ",", and "]".
IsArray(text) ==
  /\ Len(text) >= 2
  /\ text[1] = Open
  /\ text[Len(text)] = Close
  /\ Len(text) > 2 => Len(text) % 2 = 1
  /\ \A k \in 2..(Len(text) - 1) :
       text[k].tok = (IF k % 2 = 0 THEN "object" ELSE ",")

\* The entries of the array, in the order of the text.
Entries(text) == SelectSeq(text, LAMBDA t : t.tok = "object")

\* C23: the metadata of a rendered document is an array with one entry per
\* patch of the PatchList, in the same order, the i-th entry holding the
\* flavour and the interface id of the i-th patch; for an empty PatchList it
\* is the empty array.
C23_MetadataPerPatch ==
  doc.kind = "json" =>
    /\ IsArray(doc.metadata)
    /\ Len(Entries(doc.metadata)) = Len(patches)
    /\ \A i \in DOMAIN patches :
         /\ Entries(doc.metadata)[i].flavor = patch_to_flavour(patches[i])
         /\ Entries(doc.metadata)[i].interface = patch_to_interface(patches[i])
    /\ patches = <<>> => doc.metadata = <<Open, Close>>

\* The document rendered for the patches 11.1 and 1.1.
C23_Witness ==
  /\ patches = << <<"1", "1", ".", "1">>, <<"1", ".", "1">> >>
  /\ doc.kind = "json"
  /\ Entries(doc.metadata)[1].flavor = "mainline"
  /\ Entries(doc.metadata)[1].interface.val = 110100
  /\ Entries(doc.metadata)[2].flavor = "classic"
  /\ Entries(doc.metadata)[2].interface.val = 10100

\* The PatchList has a patch of fewer than 2 characters.
ShortPatch == \E k \in DOMAIN patches : Len(patches[k]) < 2

\* C24: patch_to_flavour fails for a patch shorter than 2 characters, and a
\* run whose addon has such a patch never gets past the rendering of
\* release.json: no commit, tag or push is attempted, no release is created
\* or uploaded to, and the remote repository stays as it was.
C24_ShortPatchAbortsBeforeTag ==
  /\ \A k \in DOMAIN patches :
       Len(patches[k]) < 2 => patch_to_flavour(patches[k]) = "panic"
  /\ ShortPatch =>
       /\ pc \in {"download", "render", "aborted"}
       /\ \A k \in DOMAIN log :
            log[k].op \notin Range(tag_addon) \cup Range(create_tag_release)
       /\ remote[slug] = [hist |-> <<1>>, tags |-> NoTags, trees |-> <<"none">>]
       /\ releases[slug] = <<>>

\* The artifact was downloaded and gen_release_json panicked on a patch of
\* one character.
C24_Witness ==
  /\ ShortPatch
  /\ pc = "aborted"
  /\ doc.kind = "panic"
  /\ Len(log) = 2
  /\ log[1].op = "http_get"
  /\ log[1].res = "ok"
  /\ log[2].op = "gen_release_json"

\* C29: a command of fetch_repo or tag_addon that did not complete
\* successfully (non-zero exit, or a process that could not be started) is
\* the last operation of the run, and the run is aborted; the commands of a
\* list are attempted in the order of the list.
C29_RunAllCmdStops ==
  /\ \A k \in DOMAIN log :
       ( /\ log[k].op \in Range(fetch_repo) \cup Range(tag_addon)
         /\ Unsuccessful(log[k]) )
       => k = Len(log) /\ pc = "aborted"
  /\ \A i \in DOMAIN list :
       /\ IsPrefix(SelectSeq(OpsAt(i), LAMBDA op : op \in Range(fetch_repo)),
                   fetch_repo)
       /\ IsPrefix(TagOpsAt(i), tag_addon)

\* C25: within a run the addons are visited in list order, each at most
\* once; no operation is attempted twice for the same addon (an upload: for
\* the same asset); and an operation that did not succeed is the last one of
\* the run, which is then aborted, so that a run that returns has no
\* unsuccessful operation.
C25_NoRetries ==
  /\ \A j, k \in DOMAIN log :
       /\ j < k => log[j].i <= log[k].i
       /\ ( /\ j # k
            /\ log[j].i = log[k].i
            /\ log[j].op = log[k].op )
          => log[j].op = "upload" /\ log[j].out # log[k].out
  /\ \A k \in DOMAIN log :
       Unsuccessful(log[k]) => k = Len(log) /\ pc = "aborted"
  /\ pc = "done" => \A k \in DOMAIN log : ~Unsuccessful(log[k])

\* The entry is the last step of the addon at position i: the tag query that
\* found the addon up to date, or the upload of its second asset.
LastStep(e, i) ==
  \/ e.op = "describe" /\ run_cmd(e.res) = 0 /\ e.out = list[i].version
  \/ e.op = "upload" /\ e.res = "ok" /\ e.out = ReleaseJsonName

\* C26: the operations of a run are those of the first addon of the list,
\* then those of the second, and so on: the position never goes back and
\* never jumps, and the first operation of addon i+1, the reset of its
\* working copy, directly follows the last step of addon i.
C26_StrictSequencing ==
  /\ log # <<>> => log[1].i = 1 /\ log[1].op = "rm"
  /\ \A k \in 1..(Len(log) - 1) :
       \/ log[k + 1].i = log[k].i
       \/ /\ log[k + 1].i = log[k].i + 1
          /\ log[k + 1].op = "rm"
          /\ LastStep(log[k], log[k].i)
  /\ (pc \in Steps /\ log # <<>>) =>
       \/ log[Len(log)].i = idx
       \/ log[Len(log)].i = idx - 1 /\ pc = "rm"

\* The second addon of the list is being processed after the release of the
\* first got its two assets.
C26_Witness ==
  \E k \in 1..(Len(log) - 1) :
    /\ log[k].i = 1
    /\ log[k].op = "upload"
    /\ log[k + 1].i = 2
    /\ pc = "describe"

\* What `git describe --tags --abbrev=0` gives in a fresh clone of the
\* remote repository of the addon.
RemoteVersions ==
  LET names == DescribeTags(remote[slug].hist, remote[slug].tags) IN
  IF names = {} THEN {""} ELSE names

\* The tag query of the run answered from the remote repository alone, and
\* the addon was skipped exactly when that answer is its version.
DecidedFromRemote ==
  /\ cur' \in RemoteVersions
  /\ (pc' = After("describe")) <=> (addon.version \notin RemoteVersions)

\* C27: whenever the tag query of an addon lets the run go on, the decision
\* between skipping and updating is the one that the tags of the remote
\* repository and addon.version give, whatever the local disk held when the
\* run started.
C27_DecisionFromRemote ==
  [][(pc = "describe" /\ pc' # "aborted") => DecidedFromRemote]_vars

\* C28: when the tag query of an addon whose version is the empty string and
\* whose remote repository has no tag lets the run go on, the addon is
\* skipped: the run moves to the next addon or returns, and nothing is
\* downloaded, written, committed, tagged, pushed or released for it.
SkippedAsUpToDate ==
  /\ pc' \in {"rm", "done"}
  /\ remote' = remote
  /\ releases' = releases
  /\ disk' = disk

C28_EmptyVersionSkipped ==
  [][( /\ pc = "describe"
       /\ addon.version = ""
       /\ remote[slug].tags = NoTags
       /\ pc' # "aborted" ) => SkippedAsUpToDate]_vars

====
